---- MODULE Spec2Model ----
(***************************************************************************)
(* The Document Segmenter of the PDF learning platform: segment(records,   *)
(* config) turns the page-ordered extraction records of one PDF (text      *)
(* lines, images, tables) into the ordered list of kept Sections, each an   *)
(* ordered list of Blocks.  The heuristics (metadata phrases, heading       *)
(* patterns, heading levels, page threshold, minimum block count) are the   *)
(* ones the repository documents for backend/services/process_pdf_blocks.py *)
(* in "Section Boundary Improvements"; the single pass over the records is  *)
(* the algorithm of spec.md, section 4.1.                                   *)
(***************************************************************************)
EXTENDS Integers, Sequences, FiniteSets, TLC

(***************************************************************************)
(* Bounds of the model.                                                     *)
(***************************************************************************)
\* longest record stream segment() is run on
MaxRecords == 5
\* number of distinct page numbers the records of a stream carry
MaxPages == 2

(***************************************************************************)
(* Characters and lines.  A line is kept in a record by its literal text;   *)
(* Chars gives its characters, on which the heuristics work.                *)
(***************************************************************************)
UpperCase ==
  <<"A", "B", "C", "D", "E", "F", "G", "H", "I", "J", "K", "L", "M",
    "N", "O", "P", "Q", "R", "S", "T", "U", "V", "W", "X", "Y", "Z">>

LowerCase ==
  <<"a", "b", "c", "d", "e", "f", "g", "h", "i", "j", "k", "l", "m",
    "n", "o", "p", "q", "r", "s", "t", "u", "v", "w", "x", "y", "z">>

Digits == {"0", "1", "2", "3", "4", "5", "6", "7", "8", "9"}

Range(f) == {f[i] : i \in DOMAIN f}

IsUpper(c) == c \in Range(UpperCase)

IsLetter(c) == c \in Range(UpperCase) \cup Range(LowerCase)

IsDigit(c) == c \in Digits

\* str.lower() on one character
LowerChar(c) ==
  IF IsUpper(c)
    THEN LowerCase[CHOOSE i \in DOMAIN UpperCase : UpperCase[i] = c]
    ELSE c

\* str.upper() on one character
UpperChar(c) ==
  IF c \in Range(LowerCase)
    THEN UpperCase[CHOOSE i \in DOMAIN LowerCase : LowerCase[i] = c]
    ELSE c

Lower(t) == [i \in DOMAIN t |-> LowerChar(t[i])]

Upper(t) == [i \in DOMAIN t |-> UpperChar(t[i])]

\* `needle in hay` on character sequences
Contains(hay, needle) ==
  \E k \in 0..(Len(hay) - Len(needle)) :
    \A i \in 1..Len(needle) : hay[k + i] = needle[i]

\* The literal lines the model feeds to the Segmenter.
LineText ==
  ("1. Introduction" :> <<"1", ".", " ", "I", "n", "t", "r", "o", "d", "u", "c", "t", "i", "o", "n">>)
  @@ ("2. Methodology" :> <<"2", ".", " ", "M", "e", "t", "h", "o", "d", "o", "l", "o", "g", "y">>)
  @@ ("1.1 Overview" :> <<"1", ".", "1", " ", "O", "v", "e", "r", "v", "i", "e", "w">>)
  @@ ("Body text" :> <<"B", "o", "d", "y", " ", "t", "e", "x", "t">>)
  @@ ("" :> <<>>)
  @@ ("Key Learning Outcomes" :> <<"K", "e", "y", " ", "L", "e", "a", "r", "n", "i", "n", "g", " ", "O", "u", "t", "c", "o", "m", "e", "s">>)
  @@ ("Participant Handbook" :> <<"P", "a", "r", "t", "i", "c", "i", "p", "a", "n", "t", " ", "H", "a", "n", "d", "b", "o", "o", "k">>)
  @@ ("1. TABLE OF CONTENTS" :> <<"1", ".", " ", "T", "A", "B", "L", "E", " ", "O", "F", " ", "C", "O", "N", "T", "E", "N", "T", "S">>)
  @@ ("1." :> <<"1", ".">>)
  @@ ("1. A" :> <<"1", ".", " ", "A">>)
  @@ ("UNIT 1" :> <<"U", "N", "I", "T", " ", "1">>)
  @@ ("INTRODUCTION AND SCOPE" :> <<"I", "N", "T", "R", "O", "D", "U", "C", "T", "I", "O", "N", " ", "A", "N", "D", " ", "S", "C", "O", "P", "E">>)
  @@ ("NOTE" :> <<"N", "O", "T", "E">>)

Chars(text) == LineText[text]

(***************************************************************************)
(* Skip Metadata Sections: the boilerplate phrases.                         *)
(***************************************************************************)
MetadataPhrases ==
  { <<"k", "e", "y", " ", "l", "e", "a", "r", "n", "i", "n", "g", " ", "o", "u", "t", "c", "o", "m", "e", "s">>,
    <<"p", "a", "r", "t", "i", "c", "i", "p", "a", "n", "t", " ", "h", "a", "n", "d", "b", "o", "o", "k">>,
    <<"t", "a", "b", "l", "e", " ", "o", "f", " ", "c", "o", "n", "t", "e", "n", "t", "s">>,
    <<"u", "n", "i", "t", " ", "o", "b", "j", "e", "c", "t", "i", "v", "e", "s">>,
    <<"a", "t", " ", "t", "h", "e", " ", "e", "n", "d", " ", "o", "f", " ", "t", "h", "i", "s", " ", "u", "n", "i", "t">> }

\* a faulty variant of is_metadata_section: the phrases are matched case-sensitively
is_metadata_section_CaseSensitive(t) ==
  \E p \in MetadataPhrases : Contains(t, p)

\* is_metadata_section(text): the line contains a phrase, whatever the case
is_metadata_section(t) ==
  \E p \in MetadataPhrases : Contains(Lower(t), p)

(***************************************************************************)
(* Improved Heading Detection and Heading Level Detection.                  *)
(***************************************************************************)
\* shortest line that can be a heading
MinHeadingLength == 5
\* shortest all-capitals line that can be a heading
MinAllCapsLength == 15

\* length of the leading run of digits and periods ("1.", "1.1", "10.2.")
NumberPrefixLen(t) ==
  IF Len(t) = 0 \/ ~IsDigit(t[1])
    THEN 0
    ELSE CHOOSE k \in 1..Len(t) :
           /\ \A i \in 1..k : IsDigit(t[i]) \/ t[i] = "."
           /\ (k = Len(t) \/ ~(IsDigit(t[k + 1]) \/ t[k + 1] = "."))

\* number of spaces that follow position k
SpacesAfter(t, k) ==
  CHOOSE n \in 0..(Len(t) - k) :
    /\ \A i \in 1..n : t[k + i] = " "
    /\ (k + n = Len(t) \/ t[k + n + 1] # " ")

\* Numbered headings: the number must have a letter after it
NumberedHeading(t) ==
  LET k == NumberPrefixLen(t)
      n == SpacesAfter(t, k)
  IN  /\ k > 0
      /\ n > 0
      /\ k + n < Len(t)
      /\ IsLetter(t[k + n + 1])

\* All caps headings: at least 15 chars, mostly letters
AllCapsHeading(t) ==
  /\ Len(t) >= MinAllCapsLength
  /\ Upper(t) = t
  /\ 2 * Cardinality({i \in DOMAIN t : IsLetter(t[i])}) > Len(t)

StartsWith(t, prefix) ==
  /\ Len(t) >= Len(prefix)
  /\ \A i \in 1..Len(prefix) : t[i] = prefix[i]

\* Unit/Chapter headings: "UNIT 1", "CHAPTER 2", whatever the case
UnitChapterHeading(t) ==
  \E w \in { <<"u", "n", "i", "t", " ">>, <<"c", "h", "a", "p", "t", "e", "r", " ">> } :
    /\ StartsWith(Lower(t), w)
    /\ Len(t) > Len(w)
    /\ IsDigit(t[Len(w) + 1])

\* a faulty variant of is_heading: no minimum length
is_heading_AnyLength(t) ==
  NumberedHeading(t) \/ AllCapsHeading(t) \/ UnitChapterHeading(t)

\* is_heading(text)
is_heading(t) ==
  /\ Len(t) >= MinHeadingLength
  /\ (NumberedHeading(t) \/ AllCapsHeading(t) \/ UnitChapterHeading(t))

\* number of numeric components of the leading number: 1 for "1.", 2 for "1.1"
NumberComponents(t) ==
  LET k == NumberPrefixLen(t)
  IN  IF k = 0 THEN 0
      ELSE 1 + Cardinality({i \in 1..(k - 1) : t[i] = "." /\ IsDigit(t[i + 1])})

\* a faulty variant of get_heading_level: every heading is a Level 1 heading
get_heading_level_AlwaysOne(t) == 1

\* get_heading_level(text): 1 for "1. Introduction" or "INTRODUCTION",
\* 2 for "1.1 Overview"
get_heading_level(t) ==
  IF NumberComponents(t) >= 2 THEN 2 ELSE 1

\* a blank line: nothing but spaces
IsBlank(t) == \A i \in DOMAIN t : t[i] = " "

\* a faulty variant of classify_line: the heading patterns are tried before
\* the metadata phrases
classify_line_HeadingFirst(t) ==
  IF is_heading(t) /\ get_heading_level(t) = 2 THEN "level2"
  ELSE IF is_heading(t) THEN "level1"
  ELSE IF is_metadata_section(t) THEN "metadata"
  ELSE IF IsBlank(t) THEN "blank"
  ELSE "text"

\* The rules in their fixed priority: metadata phrase, Level 2 heading,
\* Level 1 heading, plain text.
classify_line(t) ==
  IF is_metadata_section(t) THEN "metadata"
  ELSE IF is_heading(t) /\ get_heading_level(t) = 2 THEN "level2"
  ELSE IF is_heading(t) THEN "level1"
  ELSE IF IsBlank(t) THEN "blank"
  ELSE "text"

\* the classification of every line of the model, computed once
LineClass == [text \in DOMAIN LineText |-> classify_line(Chars(text))]

(***************************************************************************)
(* Page Threshold and Minimum Block Count.                                  *)
(***************************************************************************)
\* Skip first 3 pages
DefaultPageThreshold == 3
\* Sections must have at least 5 blocks
DefaultMinBlocksPerSection == 5

DefaultConfig ==
  [pageThreshold |-> DefaultPageThreshold,
   minBlocksPerSection |-> DefaultMinBlocksPerSection]

\* the configs segment() is run with: the default one and two small ones,
\* under which short streams open, keep and discard Sections
Configs ==
  { DefaultConfig,
    [pageThreshold |-> 1, minBlocksPerSection |-> 1],
    [pageThreshold |-> 0, minBlocksPerSection |-> 2] }

(***************************************************************************)
(* RawExtractionRecord.                                                     *)
(***************************************************************************)
\* the page numbers of a stream: the last page the threshold skips (when
\* there is one) and the pages after it
FirstPage(cfg) == IF cfg.pageThreshold >= 1 THEN cfg.pageThreshold ELSE 1

Pages(cfg) == FirstPage(cfg)..(FirstPage(cfg) + MaxPages - 1)

TextLine(p, text) == [pageNumber |-> p, kind |-> "text-line", text |-> text]

Image(p) == [pageNumber |-> p, kind |-> "image", imageFormat |-> "png"]

Table(p) ==
  [pageNumber |-> p, kind |-> "table", tableDimensions |-> [rows |-> 2, cols |-> 3]]

\* the lines of the streams explored exhaustively
StreamLines ==
  { "1. Introduction", "1.1 Overview", "Body text", "",
    "Key Learning Outcomes", "1. TABLE OF CONTENTS" }

TextLines(cfg) == {TextLine(p, t) : p \in Pages(cfg), t \in StreamLines}

Assets(cfg) == {Image(p) : p \in Pages(cfg)} \cup {Table(p) : p \in Pages(cfg)}

VARIABLES
  config,               \* the config handed to segment()
  nRecords,             \* number of records read so far
  lastRecord,           \* <<>> or <<the record read last>>
  pc,                   \* "running", "done" (returned) or "error" (raised)
  currentSection,       \* <<>> (null) or <<the open Section>>
  sectionOpened,        \* a Section has been opened
  inMetadataSpan,
  buffer,               \* the line-accumulation buffer
  blockOrderCounter,
  sectionOrderCounter,
  sections,             \* the kept Sections
  finalized,            \* history: every finalized Section, kept or not
  inSpan,               \* history: the input is between a metadata-phrase
                        \* line and the next Level 1 heading line
  eligible,             \* history: number of eligible Level 1 heading lines read
  seen,                 \* history: what the input has held so far
  input,                \* the stream segment() is given, when it is run on a
                        \* given one (<<>> when the records are drawn as read)
  classifier,           \* "idle", "pending" or "complete"
  inFlight,             \* the classification requests not yet answered
  returned              \* history: the Sections as segment() returned them

segVars ==
  <<config, nRecords, lastRecord, pc, currentSection, sectionOpened,
    inMetadataSpan, buffer, blockOrderCounter, sectionOrderCounter, sections,
    finalized, inSpan, eligible, seen>>

classVars == <<classifier, inFlight, returned>>

\* The Document Store and the requests that work on it (routes/upload.js,
\* routes/documents.js, routes/sections.js, the insert scripts), one call
\* of generateSummary, and the server process (server.js).
VARIABLES
  documents,            \* the Document collection
  stored,               \* the Section collection
  requests,             \* the state of every request and script run
  summaryCall,          \* <<>> or <<the arguments, LLM answer and result of a call>>
  server                \* <<>> or <<the state of the process that runs startServer>>

webVars == <<documents, stored, requests, summaryCall, server>>

vars == <<segVars, input, classVars, webVars>>

\* no Document, no Section, no request, no call of generateSummary
NoWeb ==
  /\ documents = {}
  /\ stored = {}
  /\ requests = <<>>
  /\ summaryCall = <<>>
  /\ server = <<>>

(***************************************************************************)
(* What the input is, said line by line and without the heuristics: the     *)
(* history variables and the properties read the input through these.       *)
(***************************************************************************)
PhraseLines == {"Key Learning Outcomes", "Participant Handbook", "1. TABLE OF CONTENTS"}

Level1Lines == {"1. Introduction", "2. Methodology", "UNIT 1", "INTRODUCTION AND SCOPE"}

Level2Lines == {"1.1 Overview"}

IsText(r) == r.kind = "text-line"

IsPhraseLine(r) == IsText(r) /\ r.text \in PhraseLines

IsLevel1Line(r) == IsText(r) /\ r.text \in Level1Lines

IsLevel2Line(r) == IsText(r) /\ r.text \in Level2Lines

\* inSpan after record r
SpanAfter(span, r) ==
  IF IsPhraseLine(r) THEN TRUE
  ELSE IF IsLevel1Line(r) THEN FALSE
  ELSE span

\* r is a Level 1 heading line eligible to open a Section: past the page
\* threshold, or read after a Section has been opened
EligibleLine(r, opened, cfg) ==
  IsLevel1Line(r) /\ (r.pageNumber > cfg.pageThreshold \/ opened)

\* the free-form metadata map of a text Block
EmptyMap == [x \in {} |-> TRUE]

\* the locals of segment() as one value
Locals ==
  [currentSection |-> currentSection, sectionOpened |-> sectionOpened,
   inMetadataSpan |-> inMetadataSpan, buffer |-> buffer,
   blockOrderCounter |-> blockOrderCounter,
   sectionOrderCounter |-> sectionOrderCounter,
   sections |-> sections, finalized |-> finalized]

InitialLocals ==
  [currentSection |-> <<>>, sectionOpened |-> FALSE, inMetadataSpan |-> FALSE,
   buffer |-> <<>>, blockOrderCounter |-> 0, sectionOrderCounter |-> 0,
   sections |-> <<>>, finalized |-> <<>>]

SetLocals(s) ==
  /\ currentSection' = s.currentSection
  /\ sectionOpened' = s.sectionOpened
  /\ inMetadataSpan' = s.inMetadataSpan
  /\ buffer' = s.buffer
  /\ blockOrderCounter' = s.blockOrderCounter
  /\ sectionOrderCounter' = s.sectionOrderCounter
  /\ sections' = s.sections
  /\ finalized' = s.finalized

\* a faulty variant of AppendBlock: the Block goes in front of the others
AppendBlock_Prepends(s, b) ==
  [s EXCEPT
     !.currentSection[1].blocks =
        <<[b EXCEPT !.order = s.blockOrderCounter]>> \o @,
     !.blockOrderCounter = @ + 1]

\* append a Block to the open Section with the next order of that Section
AppendBlock(s, b) ==
  [s EXCEPT
     !.currentSection[1].blocks =
        Append(@, [b EXCEPT !.order = s.blockOrderCounter]),
     !.blockOrderCounter = @ + 1]

\* the paragraph held in the buffer, as a text Block.  src is the span of
\* record indexes the Block derives from, span whether one of them lies in
\* a metadata span (both are history, not fields of the program's Block)
ParagraphBlock(buf) ==
  [type |-> "text",
   content |-> [i \in DOMAIN buf |-> buf[i].text],
   order |-> 0,
   metadata |-> EmptyMap,
   src |-> <<buf[1].idx, buf[Len(buf)].idx>>,
   span |-> \E i \in DOMAIN buf : buf[i].span]

\* emit the buffered paragraph as one Block
Flush(s) ==
  IF s.buffer = <<>> \/ s.currentSection = <<>>
    THEN [s EXCEPT !.buffer = <<>>]
    ELSE AppendBlock([s EXCEPT !.buffer = <<>>], ParagraphBlock(s.buffer))

\* re-number the Blocks densely from 0
Renumber(blocks) == [i \in DOMAIN blocks |-> [blocks[i] EXCEPT !.order = i - 1]]

\* a faulty variant of KeepSection: every Section with a Block is kept
KeepSection_AnyBlock(n, cfg) == n >= 1

\* a faulty variant of KeepSection: nothing is discarded
KeepSection_Always(n, cfg) == TRUE

\* Minimum Block Count: the Section survives
KeepSection(n, cfg) == n >= cfg.minBlocksPerSection

\* the history entry of a Section finalized after idx records
FinalizedEntry(sec, idx) ==
  [headingIdx |-> sec.headingIdx, nBlocks |-> Len(sec.blocks), endIdx |-> idx]

\* a faulty variant of Finalize: the Section keeps the order it was given
\* when it was opened, from a counter that counts the Sections opened
Finalize_TentativeOrder(s, idx, cfg) ==
  IF s.currentSection = <<>>
    THEN [s EXCEPT !.buffer = <<>>]
    ELSE
      LET f == Flush(s)
          sec == f.currentSection[1]
          done == [f EXCEPT
                     !.currentSection = <<>>,
                     !.finalized = Append(@, FinalizedEntry(sec, idx))]
      IN  IF KeepSection(Len(sec.blocks), cfg)
            THEN [done EXCEPT
                    !.sections = Append(@, [sec EXCEPT !.order = Len(s.finalized)])]
            ELSE done

\* Finalize the open Section: keep it under the next sequence number when it
\* has enough Blocks, discard it with its Blocks otherwise
Finalize(s, idx, cfg) ==
  IF s.currentSection = <<>>
    THEN [s EXCEPT !.buffer = <<>>]
    ELSE
      LET f == Flush(s)
          sec == f.currentSection[1]
          done == [f EXCEPT
                     !.currentSection = <<>>,
                     !.finalized = Append(@, FinalizedEntry(sec, idx))]
      IN  IF KeepSection(Len(sec.blocks), cfg)
            THEN [done EXCEPT
                    !.sections =
                       Append(@, [sec EXCEPT !.order = f.sectionOrderCounter,
                                             !.blocks = Renumber(@)]),
                    !.sectionOrderCounter = @ + 1]
            ELSE done

\* open a new Section on the heading line r, the idx-th record
OpenSection(s, r, idx) ==
  [s EXCEPT
     !.currentSection =
        <<[order |-> s.sectionOrderCounter, heading |-> r.text,
           blocks |-> <<>>,
           headingIdx |-> idx, headingPage |-> r.pageNumber]>>,
     !.sectionOpened = TRUE,
     !.blockOrderCounter = 0]

\* a faulty variant of PastThreshold: the threshold gates nothing
PastThreshold_Always(p, opened, cfg) == TRUE

\* Page Threshold: heading detection runs on this line (the threshold only
\* gates the first Section)
PastThreshold(p, opened, cfg) == p > cfg.pageThreshold \/ opened

\* the line r starts a new paragraph: the page number changed
ParagraphBoundary(buf, r) ==
  /\ buf # <<>>
  /\ buf[Len(buf)].pageNumber # r.pageNumber

\* a faulty variant of BufferLine: a blank line ends no paragraph
BufferLine_IgnoresBlank(s, r, idx, span) ==
  IF LineClass[r.text] = "blank"
    THEN s
    ELSE LET t == IF ParagraphBoundary(s.buffer, r) THEN Flush(s) ELSE s
         IN  [t EXCEPT
                !.buffer = Append(@, [idx |-> idx, text |-> r.text,
                                      pageNumber |-> r.pageNumber, span |-> span])]

\* a plain line for the open Section: coalesced into the current paragraph
BufferLine(s, r, idx, span) ==
  IF LineClass[r.text] = "blank"
    THEN Flush(s)
    ELSE LET t == IF ParagraphBoundary(s.buffer, r) THEN Flush(s) ELSE s
         IN  [t EXCEPT
                !.buffer = Append(@, [idx |-> idx, text |-> r.text,
                                      pageNumber |-> r.pageNumber, span |-> span])]

\* the Block of a sub-heading line
LineBlock(r, idx, span) ==
  [type |-> "text", content |-> <<r.text>>, order |-> 0, metadata |-> EmptyMap,
   src |-> <<idx, idx>>, span |-> span]

\* a faulty variant of OnTextLine: the heading that ends a metadata span
\* is processed with inMetadataSpan still set, and is discarded with the span
OnTextLine_SpanSwallowsHeading(s, r, idx, cfg, span) ==
  LET class == LineClass[r.text]
      detect == PastThreshold(r.pageNumber, s.sectionOpened, cfg)
  IN  IF class = "metadata"
        THEN [Finalize(s, idx - 1, cfg) EXCEPT !.inMetadataSpan = TRUE]
      ELSE IF detect /\ class = "level1"
        THEN IF s.inMetadataSpan
               THEN [s EXCEPT !.inMetadataSpan = FALSE]
               ELSE OpenSection(Finalize(s, idx - 1, cfg), r, idx)
      ELSE IF detect /\ class = "level2"
        THEN IF s.currentSection # <<>> /\ ~s.inMetadataSpan
               THEN AppendBlock(Flush(s), LineBlock(r, idx, span))
               ELSE s
      ELSE IF s.currentSection # <<>> /\ ~s.inMetadataSpan
        THEN BufferLine(s, r, idx, span)
      ELSE s

\* a faulty variant of OnTextLine: a metadata-phrase line starts the span
\* and leaves the open Section open, to be finalized by the next heading
OnTextLine_SpanKeepsSectionOpen(s, r, idx, cfg, span) ==
  LET class == LineClass[r.text]
      detect == PastThreshold(r.pageNumber, s.sectionOpened, cfg)
  IN  IF class = "metadata"
        THEN [Flush(s) EXCEPT !.inMetadataSpan = TRUE]
      ELSE IF detect /\ class = "level1"
        THEN OpenSection(
               [Finalize(s, idx - 1, cfg) EXCEPT !.inMetadataSpan = FALSE], r, idx)
      ELSE IF detect /\ class = "level2"
        THEN IF s.currentSection # <<>> /\ ~s.inMetadataSpan
               THEN AppendBlock(Flush(s), LineBlock(r, idx, span))
               ELSE s
      ELSE IF s.currentSection # <<>> /\ ~s.inMetadataSpan
        THEN BufferLine(s, r, idx, span)
      ELSE s

\* step 2a: the text line r, the idx-th record
OnTextLine(s, r, idx, cfg, span) ==
  LET class == LineClass[r.text]
      detect == PastThreshold(r.pageNumber, s.sectionOpened, cfg)
  IN  IF class = "metadata"
        THEN [Finalize(s, idx - 1, cfg) EXCEPT !.inMetadataSpan = TRUE]
      ELSE IF detect /\ class = "level1"
        THEN OpenSection(
               [Finalize(s, idx - 1, cfg) EXCEPT !.inMetadataSpan = FALSE], r, idx)
      ELSE IF detect /\ class = "level2"
        THEN IF s.currentSection # <<>> /\ ~s.inMetadataSpan
               THEN AppendBlock(Flush(s), LineBlock(r, idx, span))
               ELSE s
      ELSE IF s.currentSection # <<>> /\ ~s.inMetadataSpan
        THEN BufferLine(s, r, idx, span)
      ELSE s

\* the Block of an image or table record
AssetBlock(r, idx, span) ==
  IF r.kind = "table"
    THEN [type |-> "table", content |-> <<"table", idx>>, order |-> 0,
          metadata |-> [isTable |-> TRUE, rows |-> r.tableDimensions.rows,
                        cols |-> r.tableDimensions.cols],
          src |-> <<idx, idx>>, span |-> span]
    ELSE [type |-> "image", content |-> <<"image", idx>>, order |-> 0,
          metadata |-> [isTable |-> FALSE, format |-> r.imageFormat],
          src |-> <<idx, idx>>, span |-> span]

\* a faulty variant of OnAsset: with no Section open, the image or table
\* goes to the Section kept last
OnAsset_AttachesToLastKept(s, r, idx, span) ==
  IF s.currentSection # <<>> /\ ~s.inMetadataSpan
    THEN AppendBlock(Flush(s), AssetBlock(r, idx, span))
  ELSE IF s.sections # <<>>
    THEN LET last == s.sections[Len(s.sections)]
         IN  [s EXCEPT !.sections[Len(s.sections)].blocks =
                Append(@, [AssetBlock(r, idx, span) EXCEPT !.order = Len(last.blocks)])]
  ELSE s

\* steps 2b and 2c: the image or table r, the idx-th record
OnAsset(s, r, idx, span) ==
  IF s.currentSection # <<>> /\ ~s.inMetadataSpan
    THEN AppendBlock(Flush(s), AssetBlock(r, idx, span))
    ELSE s

\* the page number of the last record read (0 before the first)
LastPage == IF lastRecord = <<>> THEN 0 ELSE lastRecord[1].pageNumber

\* a faulty variant of PageDecreases: a repeated page number counts as a decrease
PageDecreases_OrRepeats(last, r) == r.pageNumber <= last

\* the ordering precondition is violated by record r
PageDecreases(last, r) == r.pageNumber < last

InitSegmenter ==
  /\ nRecords = 0
  /\ lastRecord = <<>>
  /\ pc = "running"
  /\ currentSection = <<>>
  /\ sectionOpened = FALSE
  /\ inMetadataSpan = FALSE
  /\ buffer = <<>>
  /\ blockOrderCounter = 0
  /\ sectionOrderCounter = 0
  /\ sections = <<>>
  /\ finalized = <<>>
  /\ inSpan = FALSE
  /\ eligible = 0
  /\ seen = [decrease |-> FALSE, gated |-> FALSE, spanRecord |-> FALSE]
  /\ classifier = "idle"
  /\ inFlight = {}
  /\ returned = <<>>

Init ==
  /\ config \in Configs
  /\ input = <<>>
  /\ InitSegmenter
  /\ NoWeb

\* the record r is read: the history of the input
Read(r) ==
  /\ nRecords' = nRecords + 1
  /\ lastRecord' = <<r>>
  /\ inSpan' = SpanAfter(inSpan, r)
  /\ eligible' = IF EligibleLine(r, sectionOpened, config) THEN eligible + 1 ELSE eligible
  /\ seen' =
       [decrease |-> seen.decrease
                       \/ (lastRecord # <<>> /\ r.pageNumber < lastRecord[1].pageNumber),
        gated |-> seen.gated
                    \/ (IsLevel1Line(r) /\ ~sectionOpened
                          /\ r.pageNumber <= config.pageThreshold),
        spanRecord |-> seen.spanRecord \/ (inSpan /\ SpanAfter(inSpan, r) /\ ~IsPhraseLine(r))]

\* the loop of segment() reads a text line
ReadTextLine(r) ==
  /\ pc = "running"
  /\ r.kind = "text-line"
  /\ ~PageDecreases(LastPage, r)
  /\ Read(r)
  /\ SetLocals(OnTextLine(Locals, r, nRecords + 1, config, SpanAfter(inSpan, r)))
  /\ UNCHANGED <<config, pc, classVars, webVars>>

\* the loop of segment() reads an image or a table
ReadAsset(r) ==
  /\ pc = "running"
  /\ r.kind \in {"image", "table"}
  /\ ~PageDecreases(LastPage, r)
  /\ Read(r)
  /\ SetLocals(OnAsset(Locals, r, nRecords + 1, inSpan))
  /\ UNCHANGED <<config, pc, classVars, webVars>>

\* the page number decreases: segment() fails with MalformedInputError
RaiseMalformedInput(r) ==
  /\ pc = "running"
  /\ PageDecreases(LastPage, r)
  /\ Read(r)
  /\ pc' = "error"
  /\ SetLocals(InitialLocals)
  /\ UNCHANGED <<config, classVars, webVars>>

\* end of input: the open Section is finalized and the kept Sections returned
ReturnSections ==
  /\ pc = "running"
  /\ SetLocals(Finalize(Locals, nRecords, config))
  /\ pc' = "done"
  /\ returned' = Finalize(Locals, nRecords, config).sections
  /\ UNCHANGED <<config, nRecords, lastRecord, inSpan, eligible, seen,
                 classifier, inFlight, webVars>>

(***************************************************************************)
(* The Vision Classifier collaborator: the image Blocks of the returned     *)
(* Sections are classified concurrently, each with its Section's heading    *)
(* as context, and each result is merged into the metadata of its Block.    *)
(***************************************************************************)
\* the request for the image Block at position j of the Section at position i
Request(secs, i, j) ==
  [section |-> secs[i].order, block |-> secs[i].blocks[j].order,
   image |-> secs[i].blocks[j].content, context |-> secs[i].heading]

ImageRequests(secs) ==
  { Request(secs, i, j) : <<i, j>> \in
      { ij \in (DOMAIN secs) \X (1..MaxRecords) :
          /\ ij[2] \in DOMAIN secs[ij[1]].blocks
          /\ secs[ij[1]].blocks[ij[2]].type = "image" } }

\* classify_and_describe_image(image, context=heading): what is merged
ClassificationOf(q) ==
  [ai_classified |-> TRUE, description |-> q.image, section_context |-> q.context]

\* a faulty variant of MergeTarget: the results are merged in completion
\* order, each into the first image Block not classified yet
MergeTarget_NextUnclassified(sec, q) ==
  CHOOSE j \in DOMAIN sec.blocks :
    /\ sec.blocks[j].type = "image"
    /\ "ai_classified" \notin DOMAIN sec.blocks[j].metadata
    /\ \A k \in 1..(j - 1) :
         sec.blocks[k].type = "image" => "ai_classified" \in DOMAIN sec.blocks[k].metadata

\* the position of the Block a result belongs to: the Block of that identity
MergeTarget(sec, q) ==
  CHOOSE j \in DOMAIN sec.blocks : sec.blocks[j].order = q.block

\* the classification of every image Block is requested
RequestClassifications ==
  /\ pc = "done"
  /\ classifier = "idle"
  /\ ImageRequests(sections) # {}
  /\ classifier' = "pending"
  /\ inFlight' = ImageRequests(sections)
  /\ UNCHANGED <<segVars, input, returned, webVars>>

\* the classification q completes and is merged; the Sections are complete
\* when every classification is
MergeClassification(q) ==
  /\ classifier = "pending"
  /\ q \in inFlight
  /\ LET i == CHOOSE k \in DOMAIN sections : sections[k].order = q.section
         j == MergeTarget(sections[i], q)
     IN  sections' =
           [sections EXCEPT ![i].blocks[j].metadata = @ @@ ClassificationOf(q)]
  /\ inFlight' = inFlight \ {q}
  /\ classifier' = IF inFlight = {q} THEN "complete" ELSE "pending"
  /\ UNCHANGED <<config, nRecords, lastRecord, pc, currentSection, sectionOpened,
                 inMetadataSpan, buffer, blockOrderCounter, sectionOrderCounter,
                 finalized, inSpan, eligible, seen, input, returned, webVars>>

Next ==
  \/ /\ nRecords < MaxRecords
     /\ \E r \in TextLines(config) : ReadTextLine(r)
     /\ UNCHANGED input
  \/ /\ nRecords < MaxRecords
     /\ \E r \in Assets(config) : ReadAsset(r)
     /\ UNCHANGED input
  \/ /\ nRecords < MaxRecords
     /\ \E r \in TextLines(config) \cup Assets(config) : RaiseMalformedInput(r)
     /\ UNCHANGED input
  \/ ReturnSections /\ UNCHANGED input
  \/ RequestClassifications
  \/ \E q \in inFlight : MergeClassification(q)

Spec == Init /\ [][Next]_vars

(***************************************************************************)
(* The end-to-end scenario: three pages of front matter holding a           *)
(* "Participant Handbook" line, "1. Introduction" on page 4 with six text   *)
(* lines and one image on pages 4 and 5, "2. Methodology" on page 6 with    *)
(* two text lines, under the default config.  The streams differ in where   *)
(* the handbook line, the image and the page break are, and in whether the  *)
(* text lines are separated by blank lines.                                 *)
(***************************************************************************)
\* concatenation of the sequences f[1], ..., f[n]
RECURSIVE Concat(_, _)
Concat(f, n) == IF n = 0 THEN <<>> ELSE Concat(f, n - 1) \o f[n]

FrontMatter(handbook) ==
  [p \in 1..3 |->
     TextLine(p, IF p = handbook THEN "Participant Handbook" ELSE "Body text")]

\* the six text lines, the first `break` of them on page 4 and the others on
\* page 5, with the image after `imageAfter` of them
IntroductionBody(imageAfter, break, separated) ==
  LET page(k) == IF k <= break THEN 4 ELSE 5
      piece(k) ==
        (IF separated /\ k > 1 THEN <<TextLine(page(k), "")>> ELSE <<>>)
        \o <<TextLine(page(k), "Body text")>>
        \o (IF imageAfter = k THEN <<Image(page(k))>> ELSE <<>>)
  IN  (IF imageAfter = 0 THEN <<Image(4)>> ELSE <<>>)
      \o Concat([k \in 1..6 |-> piece(k)], 6)

MethodologyBody(separated) ==
  <<TextLine(6, "Body text")>>
  \o (IF separated THEN <<TextLine(6, "")>> ELSE <<>>)
  \o <<TextLine(6, "Body text")>>

ScenarioStream(handbook, imageAfter, break, separated) ==
  FrontMatter(handbook)
  \o <<TextLine(4, "1. Introduction")>>
  \o IntroductionBody(imageAfter, break, separated)
  \o <<TextLine(6, "2. Methodology")>>
  \o MethodologyBody(separated)

ScenarioStreams(separated) ==
  { ScenarioStream(h, a, b, separated) : h \in 1..3, a \in 0..6, b \in 1..6 }

InitScenario ==
  /\ config = DefaultConfig
  /\ input \in ScenarioStreams(TRUE) \cup ScenarioStreams(FALSE)
  /\ InitSegmenter
  /\ NoWeb

\* segment() reads the next record of the stream, a text line
ScenarioTextLine ==
  /\ nRecords < Len(input)
  /\ ReadTextLine(input[nRecords + 1])
  /\ UNCHANGED input

\* segment() reads the next record of the stream, an image
ScenarioAsset ==
  /\ nRecords < Len(input)
  /\ ReadAsset(input[nRecords + 1])
  /\ UNCHANGED input

\* the stream is read to its end
ScenarioReturn ==
  /\ nRecords = Len(input)
  /\ ReturnSections
  /\ UNCHANGED input

NextScenario == ScenarioTextLine \/ ScenarioAsset \/ ScenarioReturn

SpecScenario == InitScenario /\ [][NextScenario]_vars

(***************************************************************************)
(* The edge cases of the heading heuristics and of the minimum block count: *)
(* streams of heading lines and of lines too short to be headings, under    *)
(* the configs above and under one that discards nothing.                   *)
(***************************************************************************)
EdgeConfigs == Configs \cup {[pageThreshold |-> 0, minBlocksPerSection |-> 0]}

EdgeLines == {"1. Introduction", "1.", "1. A", "Body text"}

EdgeTextLines(cfg) == {TextLine(p, t) : p \in Pages(cfg), t \in EdgeLines}

InitEdgeCases ==
  /\ config \in EdgeConfigs
  /\ input = <<>>
  /\ InitSegmenter
  /\ NoWeb

NextEdgeCases ==
  \/ /\ nRecords < MaxRecords
     /\ \E r \in EdgeTextLines(config) : ReadTextLine(r)
     /\ UNCHANGED input
  \/ /\ nRecords < MaxRecords
     /\ \E r \in Assets(config) : ReadAsset(r)
     /\ UNCHANGED input
  \/ ReturnSections /\ UNCHANGED input

SpecEdgeCases == InitEdgeCases /\ [][NextEdgeCases]_vars

(***************************************************************************)
(* services/summarizer.js, generateSummary.  A string is kept as what       *)
(* split(' ') makes of it: the non-empty sequence of its words, each a      *)
(* sequence of characters without a space; the empty string is the one      *)
(* empty word.                                                              *)
(***************************************************************************)
\* most words of the headings and headlines generateSummary is called with
MaxWords == 14

\* number of words a headline is cut to
MaxHeadlineWords == 12

Word == <<"w">>

EmptyString == <<<<>>>>

\* the string of k words, and the same with a doubled space after the first
WordsString(k) == [i \in 1..k |-> Word]

GappedString(k) == [i \in 1..(k + 1) |-> IF i = 2 THEN <<>> ELSE Word]

Strings ==
  {EmptyString} \cup {WordsString(k) : k \in 1..MaxWords}
                \cup {GappedString(k) : k \in 1..(MaxWords - 1)}

\* str.split(' ')
Split(str) == str

\* words.join(' ')
Join(words) == IF words = <<>> THEN EmptyString ELSE words

\* str + '...'
Concatenate(str, suffix) == [str EXCEPT ![Len(str)] = @ \o suffix]

\* a string is falsy when empty
Falsy(str) == str = EmptyString

\* the summaries an answer carries: none (or the empty string), or a text
Summaries == {"", "A summary."}

\* what the chat completion gives: the request throws, or JSON.parse throws
\* on its content, or the parsed value has no headline to split, or it has
\* a headline and possibly a summary
LlmAnswers ==
  {[outcome |-> "throws"], [outcome |-> "invalid JSON"], [outcome |-> "no headline"]}
    \cup {[outcome |-> "headline", headline |-> h, summary |-> t] :
            h \in Strings, t \in Summaries}

\* sectionText.length > 3000 ? substring(0, 3000) + '...' : sectionText,
\* on the length of the text
truncatedText(length) == IF length > 3000 THEN 3000 + 3 ELSE length

SectionTextLengths == {0, 3000, 3001}

\* a faulty catch block: it throws the error on
FallbackSummary_Rethrows(heading) ==
  [promise |-> "rejected", headline |-> heading, summary |-> ""]

\* the catch block of generateSummary: the fallback
FallbackSummary(heading) ==
  [promise |-> "resolved", headline |-> heading,
   summary |-> "Summary generation failed. Please review the full content."]

\* generateSummary(sectionText, heading), given what the LLM answers to the
\* prompt made of the heading and the truncated text
generateSummary(sectionText, heading, answer) ==
  IF answer.outcome \in {"throws", "invalid JSON", "no headline"}
    THEN FallbackSummary(heading)
    ELSE
      LET words == Split(answer.headline)
          headline ==
            IF Len(words) > MaxHeadlineWords
              THEN Concatenate(Join(SubSeq(words, 1, MaxHeadlineWords)),
                               <<".", ".", ".">>)
              ELSE answer.headline
      IN  [promise |-> "resolved",
           headline |-> IF Falsy(headline) THEN heading ELSE headline,
           summary |-> IF answer.summary = "" THEN "Summary not available."
                                              ELSE answer.summary]

InitSummary ==
  /\ config = DefaultConfig
  /\ input = <<>>
  /\ InitSegmenter
  /\ documents = {}
  /\ stored = {}
  /\ requests = <<>>
  /\ server = <<>>
  /\ summaryCall \in
       { <<[sectionText |-> t, heading |-> h, answer |-> a, result |-> <<>>]>> :
           t \in {truncatedText(l) : l \in SectionTextLengths},
           h \in Strings, a \in LlmAnswers }

\* the call returns
ReturnSummary ==
  /\ summaryCall[1].result = <<>>
  /\ summaryCall' =
       <<[summaryCall[1] EXCEPT
            !.result = <<generateSummary(summaryCall[1].sectionText,
                                         summaryCall[1].heading,
                                         summaryCall[1].answer)>>]>>
  /\ UNCHANGED <<segVars, input, classVars, documents, stored, requests, server>>

SpecSummary == InitSummary /\ [][ReturnSummary]_vars

(***************************************************************************)
(* The Document Store (models/Document.js, models/Section.js) and the       *)
(* requests that work on it: POST /api/upload, the insert scripts and       *)
(* DELETE /api/documents/:slug.  A handler is an async function: every      *)
(* await is a step of its own, and the steps of different requests          *)
(* interleave.  A slug is the sequence of its tokens, which the stored      *)
(* string joins with "-".                                                   *)
(***************************************************************************)
Uploads == {"u1", "u2"}
Scripts == {"s1"}
Deletes == {"d1"}
Requests == Uploads \cup Scripts \cup Deletes

\* the file names uploaded, without extension, word by word
Titles == {<<"Test", "Sample">>, <<"test", "sample", "1">>}

\* slugify(text, { lower: true, strict: true })
LowerWord ==
  [w \in {"Test", "Sample", "Scope", "test", "sample", "scope", "1"} |->
     CASE w = "Test" -> "test"
       [] w = "Sample" -> "sample"
       [] w = "Scope" -> "scope"
       [] OTHER -> w]

slugify(text) == [i \in DOMAIN text |-> LowerWord[text[i]]]

\* `${slug}-${n}`
WithSuffix(slug, n) == Append(slug, ToString(n))

\* the slug the insert scripts write
TestSample == <<"test", "sample">>

\* the slugs a DELETE or a GET names
RequestedSlugs == {TestSample, WithSuffix(TestSample, 1)}

\* the headings of the Sections a parse gives, in order
HeadingLists == {<<>>, <<<<"Scope", "1">>>>, <<<<"Scope">>, <<"Scope">>>>}

\* result.sections of the Python parser: position i holds order i - 1
ResultSections(headings) ==
  [i \in DOMAIN headings |-> [heading |-> headings[i], order |-> i - 1]]

\* a faulty parsePDF: the sectionSlug is the slug of the heading alone
parsePDF_HeadingOnly(result, documentSlug) ==
  [i \in DOMAIN result |->
     [heading |-> result[i].heading,
      order |-> result[i].order,
      documentSlug |-> documentSlug,
      sectionSlug |-> slugify(result[i].heading)]]

\* parsePDF: each section gets the documentSlug and its sectionSlug
parsePDF(result, documentSlug) ==
  [i \in DOMAIN result |->
     [heading |-> result[i].heading,
      order |-> result[i].order,
      documentSlug |-> documentSlug,
      sectionSlug |-> WithSuffix(slugify(result[i].heading), result[i].order)]]

\* a faulty unique index: it lets every slug in
UniqueIndexAllows_Everything(docs, slug) == TRUE

\* slug: { unique: true }: a save is refused when a Document holds the slug
UniqueIndexAllows(docs, slug) == \A d \in docs : d.slug # slug

\* Model.findOne(filter), given the records that match the filter: null, or
\* one of them
findOne(matching) ==
  IF matching = {} THEN {<<>>} ELSE {<<x>> : x \in matching}

\* Model.deleteMany(filter), given the records that match
deleteMany(collection, matching) == collection \ matching

\* Model.deleteOne(filter), given the records that match: the collections
\* it can leave
deleteOne(collection, matching) ==
  IF matching = {} THEN {collection} ELSE {collection \ {x} : x \in matching}

NewRequest ==
  [pc |-> "idle", alone |-> TRUE, title |-> <<>>, slug |-> <<>>, counter |-> 0,
   sections |-> <<>>, before |-> <<>>, file |-> "none", response |-> <<>>]

InProgress(r) == requests[r].pc \notin {"idle", "responded"}

\* request r is taken up with the locals rec; it is alone while no other
\* request is between its first and its last step
Receive(r, rec) ==
  requests' =
    [q \in Requests |->
       IF q = r
         THEN [rec EXCEPT !.alone = \A o \in Requests \ {r} : ~InProgress(o)]
         ELSE IF InProgress(q)
                THEN [requests[q] EXCEPT !.alone = FALSE]
                ELSE requests[q]]

Respond(r, status) ==
  requests' = [requests EXCEPT ![r].pc = "responded",
                               ![r].response = <<[status |-> status]>>]

Goto(r, pc_) == requests' = [requests EXCEPT ![r].pc = pc_]

\* fs.unlink(req.file.path): the file is removed, or the call throws and
\* leaves what was there
unlink(file) ==
  IF file = "present"
    THEN {[file |-> "removed", threw |-> FALSE], [file |-> "present", threw |-> TRUE]}
    ELSE {[file |-> file, threw |-> TRUE]}

\* the catch block of the upload handler, entered with the locals rec and
\* the error's message: fs.unlink with its own errors ignored, then 500
Catch(r, rec, message) ==
  \E cleanup \in unlink(rec.file) :
    requests' =
      [requests EXCEPT
         ![r] = [rec EXCEPT !.pc = "responded", !.file = cleanup.file,
                            !.response = <<[status |-> 500, message |-> message]>>]]

\* fs.unlink(req.file.path) on the way to a response of the upload handler:
\* when it throws, the catch block answers instead
UnlinkAndRespond(r, status) ==
  \E removal \in unlink(requests[r].file) :
    IF removal.threw
      THEN Catch(r, [requests[r] EXCEPT !.file = removal.file], "unlink")
      ELSE requests' =
             [requests EXCEPT ![r].pc = "responded", ![r].file = removal.file,
                              ![r].response = <<[status |-> status]>>]

InitStore ==
  /\ config = DefaultConfig
  /\ input = <<>>
  /\ InitSegmenter
  /\ documents = {}
  /\ stored = {}
  /\ requests = [r \in Requests |-> NewRequest]
  /\ summaryCall = <<>>
  /\ server = <<>>

NoSegmenterStep == UNCHANGED <<segVars, input, classVars, summaryCall, server>>

\* POST /api/upload, after multer has written the PDF to the uploads
\* directory: the title and the first slug
UploadReceive(r) ==
  /\ requests[r].pc = "idle"
  /\ \E title \in Titles :
       Receive(r, [requests[r] EXCEPT !.pc = "findOne", !.title = title,
                                      !.file = "present",
                                      !.slug = slugify(title), !.counter = 1])
  /\ UNCHANGED <<documents, stored>>
  /\ NoSegmenterStep

\* one Document.findOne({ slug }) of the loop that looks for a free slug
UploadFindOne(r) ==
  /\ requests[r].pc = "findOne"
  /\ LET req == requests[r]
         matching == {d \in documents : d.slug = req.slug}
     IN  \E existingDoc \in findOne(matching) :
           IF existingDoc # <<>>
             THEN requests' =
                    [requests EXCEPT
                       ![r].slug = WithSuffix(slugify(req.title), req.counter),
                       ![r].counter = req.counter + 1]
             ELSE Goto(r, "parsePDF")
  /\ UNCHANGED <<documents, stored>>
  /\ NoSegmenterStep

\* parsePDF and generateSummariesBatch: the file is removed and 400 is
\* answered when the PDF holds no section; the catch block answers when the
\* parser fails
UploadParse(r) ==
  /\ requests[r].pc = "parsePDF"
  /\ \/ \E headings \in HeadingLists :
          LET parsed == parsePDF(ResultSections(headings), requests[r].slug)
          IN  IF Len(parsed) = 0
                THEN UnlinkAndRespond(r, 400)
                ELSE requests' = [requests EXCEPT ![r].pc = "save",
                                                  ![r].sections = parsed]
     \/ Catch(r, requests[r], "parsePDF")
  /\ UNCHANGED <<documents, stored>>
  /\ NoSegmenterStep

\* document.save()
UploadSave(r) ==
  /\ requests[r].pc = "save"
  /\ LET req == requests[r]
     IN  IF UniqueIndexAllows(documents, req.slug)
           THEN /\ documents' = documents \cup
                                  {[id |-> r, title |-> req.title, slug |-> req.slug,
                                    sectionCount |-> Len(req.sections)]}
                /\ Goto(r, "insertMany")
           ELSE /\ Catch(r, req, "save")
                /\ UNCHANGED documents
  /\ UNCHANGED stored
  /\ NoSegmenterStep

\* the sectionDocs of an upload
UploadSectionDocs(r) ==
  LET req == requests[r]
  IN  {[id |-> <<r, i>>, documentId |-> r, documentSlug |-> req.slug,
        sectionSlug |-> req.sections[i].sectionSlug,
        order |-> req.sections[i].order,
        heading |-> req.sections[i].heading] : i \in DOMAIN req.sections}

\* Section.insertMany(sectionDocs), which the store can refuse, then the
\* removal of the file and the response; the file is the request's own, so
\* its removal is taken in the same step
UploadInsertMany(r) ==
  /\ requests[r].pc = "insertMany"
  /\ \/ /\ stored' = stored \cup UploadSectionDocs(r)
        /\ UnlinkAndRespond(r, 200)
     \/ /\ UNCHANGED stored
        /\ Catch(r, requests[r], "insertMany")
  /\ UNCHANGED documents
  /\ NoSegmenterStep

\* the headings of the sample PDF the insert scripts parse
SampleHeadingLists == {<<<<"Scope">>, <<"Scope">>>>}

\* an insert script starts: the parser's result
ScriptReceive(r) ==
  /\ requests[r].pc = "idle"
  /\ \E headings \in SampleHeadingLists :
       Receive(r, [requests[r] EXCEPT !.pc = "deleteDocuments", !.slug = TestSample,
                                      !.sections = ResultSections(headings)])
  /\ UNCHANGED <<documents, stored>>
  /\ NoSegmenterStep

\* Document.deleteMany({ slug: 'test-sample' })
ScriptDeleteDocuments(r) ==
  /\ requests[r].pc = "deleteDocuments"
  /\ LET matching == {d \in documents : d.slug = TestSample}
     IN  documents' = deleteMany(documents, matching)
  /\ Goto(r, "deleteSections")
  /\ UNCHANGED stored
  /\ NoSegmenterStep

\* Section.deleteMany({ documentSlug: 'test-sample' })
ScriptDeleteSections(r) ==
  /\ requests[r].pc = "deleteSections"
  /\ LET matching == {s \in stored : s.documentSlug = TestSample}
     IN  stored' = deleteMany(stored, matching)
  /\ Goto(r, "save")
  /\ UNCHANGED documents
  /\ NoSegmenterStep

\* document.save() of the script; the script exits when the save is refused
ScriptSave(r) ==
  /\ requests[r].pc = "save"
  /\ IF UniqueIndexAllows(documents, TestSample)
       THEN /\ documents' = documents \cup
                              {[id |-> r, title |-> <<"Software">>, slug |-> TestSample,
                                sectionCount |-> Len(requests[r].sections)]}
            /\ Goto(r, "insertMany")
       ELSE /\ Respond(r, 1)
            /\ UNCHANGED documents
  /\ UNCHANGED stored
  /\ NoSegmenterStep

\* the sectionDocs of a script: the sectionSlug ends in the index
ScriptSectionDocs(r) ==
  LET result == requests[r].sections
  IN  {[id |-> <<r, i>>, documentId |-> r, documentSlug |-> TestSample,
        sectionSlug |-> WithSuffix(slugify(result[i].heading), i - 1),
        order |-> result[i].order,
        heading |-> result[i].heading] : i \in DOMAIN result}

\* Section.insertMany(sectionDocs) of the script
ScriptInsertMany(r) ==
  /\ requests[r].pc = "insertMany"
  /\ stored' = stored \cup ScriptSectionDocs(r)
  /\ Respond(r, 0)
  /\ UNCHANGED documents
  /\ NoSegmenterStep

\* DELETE /api/documents/:slug: Document.findOne({ slug }), 404 when null
DeleteFindOne(r) ==
  /\ requests[r].pc = "idle"
  /\ \E slug \in RequestedSlugs :
       LET matching == {d \in documents : d.slug = slug}
           rec == [requests[r] EXCEPT
                     !.slug = slug,
                     !.before = <<[documents |-> documents, stored |-> stored]>>]
       IN  \E document \in findOne(matching) :
             IF document = <<>>
               THEN Receive(r, [rec EXCEPT !.pc = "responded",
                                           !.response = <<[status |-> 404]>>])
               ELSE Receive(r, [rec EXCEPT !.pc = "deleteSections"])
  /\ UNCHANGED <<documents, stored>>
  /\ NoSegmenterStep

\* a faulty DELETE: it deletes the Sections of every document
DeleteSections_OfEveryDocument(r) ==
  /\ requests[r].pc = "deleteSections"
  /\ stored' = {}
  /\ Goto(r, "deleteOne")
  /\ UNCHANGED documents
  /\ NoSegmenterStep

\* Section.deleteMany({ documentSlug: slug })
DeleteSections(r) ==
  /\ requests[r].pc = "deleteSections"
  /\ LET matching == {s \in stored : s.documentSlug = requests[r].slug}
     IN  stored' = deleteMany(stored, matching)
  /\ Goto(r, "deleteOne")
  /\ UNCHANGED documents
  /\ NoSegmenterStep

\* Document.deleteOne({ slug }) and the response
DeleteDocument(r) ==
  /\ requests[r].pc = "deleteOne"
  /\ LET matching == {d \in documents : d.slug = requests[r].slug}
     IN  documents' \in deleteOne(documents, matching)
  /\ Respond(r, 200)
  /\ UNCHANGED stored
  /\ NoSegmenterStep

\* a faulty navigation: next is the Section two orders on
NextOrder_SkipsOne(order) == order + 2

\* the orders the navigation looks up
PreviousOrder(order) == order - 1

NextOrder(order) == order + 1

\* prevSection ? { slug, heading } : null
NavigationLink(found) ==
  IF found = <<>> THEN <<>>
  ELSE <<[slug |-> found[1].sectionSlug, heading |-> found[1].heading]>>

\* GET /api/sections/:docSlug/:sectionSlug on the collection: the responses
\* it can give
GetSectionResponses(collection, docSlug, sectionSlug) ==
  LET named == {s \in collection : /\ s.documentSlug = docSlug
                                   /\ s.sectionSlug = sectionSlug}
      AtOrder(order) == {s \in collection : /\ s.documentSlug = docSlug
                                            /\ s.order = order}
  IN  UNION {
        IF section = <<>>
          THEN {[status |-> 404]}
          ELSE {[status |-> 200,
                 section |-> [heading |-> section[1].heading,
                              order |-> section[1].order],
                 navigation |-> [previous |-> NavigationLink(prevSection),
                                 next |-> NavigationLink(nextSection)]] :
                  prevSection \in findOne(AtOrder(PreviousOrder(section[1].order))),
                  nextSection \in findOne(AtOrder(NextOrder(section[1].order)))}
        : section \in findOne(named)}

NextStore ==
  \/ \E r \in Uploads : UploadReceive(r)
  \/ \E r \in Uploads : UploadFindOne(r)
  \/ \E r \in Uploads : UploadParse(r)
  \/ \E r \in Uploads : UploadSave(r)
  \/ \E r \in Uploads : UploadInsertMany(r)
  \/ \E r \in Scripts : ScriptReceive(r)
  \/ \E r \in Scripts : ScriptDeleteDocuments(r)
  \/ \E r \in Scripts : ScriptDeleteSections(r)
  \/ \E r \in Scripts : ScriptSave(r)
  \/ \E r \in Scripts : ScriptInsertMany(r)
  \/ \E r \in Deletes : DeleteFindOne(r)
  \/ \E r \in Deletes : DeleteSections(r)
  \/ \E r \in Deletes : DeleteDocument(r)

SpecStore == InitStore /\ [][NextStore]_vars

(***************************************************************************)
(* A reader who opens a Section of a stored document and follows the        *)
(* navigation links of GET /api/sections/:docSlug/:sectionSlug.             *)
(***************************************************************************)
MaxSections == 3
MaxHops == 6

\* the Section an upload stores for the heading "Scope" at an order
StoredSection(documentSlug, order) ==
  [id |-> <<documentSlug, order>>, documentId |-> documentSlug,
   documentSlug |-> documentSlug,
   sectionSlug |-> WithSuffix(slugify(<<"Scope">>), order),
   order |-> order, heading |-> <<"Scope">>]

\* the Sections of a document of n Sections: orders 0..n-1
StoredDocument(documentSlug, n) ==
  {StoredSection(documentSlug, order) : order \in 0..(n - 1)}

\* the sectionSlugs a GET names: those stored and one that is not
RequestedSectionSlugs == {s.sectionSlug : s \in stored} \cup {<<"missing">>}

InitNavigation ==
  /\ config = DefaultConfig
  /\ input = <<>>
  /\ InitSegmenter
  /\ documents = {}
  /\ \E n \in 0..MaxSections, m \in 0..MaxSections :
       stored = StoredDocument(TestSample, n)
                  \cup StoredDocument(WithSuffix(TestSample, 1), m)
  /\ \E docSlug \in {TestSample, WithSuffix(TestSample, 1)} :
       requests = [docSlug |-> docSlug, path |-> <<>>, hops |-> <<>>,
                   response |-> <<>>]
  /\ summaryCall = <<>>
  /\ server = <<>>

\* the reader's GET of a sectionSlug, reached by a link or typed in
Get(sectionSlug, hop) ==
  /\ \E response \in GetSectionResponses(stored, requests.docSlug, sectionSlug) :
       requests' =
         [requests EXCEPT
            !.response = <<response>>,
            !.hops = @ \o hop,
            !.path = IF response.status = 200
                       THEN Append(@, response.section.order)
                       ELSE @]
  /\ UNCHANGED <<documents, stored>>
  /\ NoSegmenterStep

\* the first page the reader opens
GetSection ==
  /\ requests.response = <<>>
  /\ \E sectionSlug \in RequestedSectionSlugs : Get(sectionSlug, <<>>)

FollowNext ==
  /\ requests.response # <<>>
  /\ requests.response[1].status = 200
  /\ requests.response[1].navigation.next # <<>>
  /\ Len(requests.hops) < MaxHops
  /\ Get(requests.response[1].navigation.next[1].slug, <<"next">>)

FollowPrevious ==
  /\ requests.response # <<>>
  /\ requests.response[1].status = 200
  /\ requests.response[1].navigation.previous # <<>>
  /\ Len(requests.hops) < MaxHops
  /\ Get(requests.response[1].navigation.previous[1].slug, <<"previous">>)

NextNavigation == GetSection \/ FollowNext \/ FollowPrevious

SpecNavigation == InitNavigation /\ [][NextNavigation]_vars

(***************************************************************************)
(* generateSummariesBatch (services/summarizer.js): the loop over the       *)
(* sections of an upload, one awaited generateSummary per section.          *)
(***************************************************************************)
MaxBatch == 3

\* the sections parsePDF hands on, without their order
BatchSections ==
  {[heading |-> WordsString(1), content |-> 0, sectionSlug |-> <<"w">>],
   [heading |-> WordsString(13), content |-> 3001, sectionSlug |-> <<"w", "w">>]}

\* the lists of sections a batch is called with: position i holds order i - 1
BatchInputs ==
  UNION {{[i \in 1..n |->
             [heading |-> choice[i].heading, content |-> choice[i].content,
              sectionSlug |-> choice[i].sectionSlug, order |-> i - 1]] :
            choice \in [1..n -> BatchSections]} : n \in 0..MaxBatch}

\* what the LLM answers within a batch
BatchAnswers ==
  {[outcome |-> "throws"],
   [outcome |-> "headline", headline |-> WordsString(13), summary |-> ""],
   [outcome |-> "headline", headline |-> WordsString(2), summary |-> "A summary."]}

\* { ...section, headline, summary }
Spread(section, headline, summary) ==
  [f \in DOMAIN section \cup {"headline", "summary"} |->
     CASE f = "headline" -> headline
       [] f = "summary" -> summary
       [] OTHER -> section[f]]

\* a faulty push: the element goes to the front
push_ToFront(results, element) == <<element>> \o results

\* results.push(element)
push(results, element) == Append(results, element)

InitBatch ==
  /\ config = DefaultConfig
  /\ input = <<>>
  /\ InitSegmenter
  /\ documents = {}
  /\ stored = {}
  /\ summaryCall = <<>>
  /\ server = <<>>
  /\ \E given \in BatchInputs :
       requests = [pc |-> "loop", sections |-> given, results |-> <<>>,
                   calls |-> <<>>]

\* one turn of the loop: the next section is summarized and pushed
SummarizeSection ==
  /\ requests.pc = "loop"
  /\ Len(requests.results) < Len(requests.sections)
  /\ LET section == requests.sections[Len(requests.results) + 1]
     IN  \E answer \in BatchAnswers :
           LET result == generateSummary(section.content, section.heading, answer)
           IN  requests' =
                 [requests EXCEPT
                    !.results = push(@, Spread(section, result.headline,
                                               result.summary)),
                    !.calls = Append(@, [order |-> section.order,
                                         outcome |-> answer.outcome])]
  /\ UNCHANGED <<documents, stored>>
  /\ NoSegmenterStep

\* return results
ReturnResults ==
  /\ requests.pc = "loop"
  /\ Len(requests.results) = Len(requests.sections)
  /\ requests' = [requests EXCEPT !.pc = "returned"]
  /\ UNCHANGED <<documents, stored>>
  /\ NoSegmenterStep

NextBatch == SummarizeSection \/ ReturnResults

SpecBatch == InitBatch /\ [][NextBatch]_vars

(***************************************************************************)
(* The server process (server.js): startServer awaits connectDB, then       *)
(* autoProcessPDF, then calls app.listen; clients try to connect at any     *)
(* time.                                                                    *)
(***************************************************************************)
MaxConnections == 2

\* the Documents the database can hold when the server starts
SeedDocuments ==
  {[id |-> "seed", title |-> <<"Software">>, slug |-> TestSample, sectionCount |-> 0],
   [id |-> "seed1", title |-> <<"Test", "Sample">>, slug |-> WithSuffix(TestSample, 1),
    sectionCount |-> 0],
   [id |-> "seed2", title |-> <<"Test", "Sample">>, slug |-> WithSuffix(TestSample, 2),
    sectionCount |-> 0]}

NewProcess ==
  [pc |-> "connectDB", connected |-> FALSE, autoReturned |-> FALSE,
   autoError |-> FALSE, listening |-> FALSE, exit |-> <<>>, log |-> "",
   served |-> 0, refused |-> 0]

\* process.exit(code)
Exit(s, code) == [s EXCEPT !.pc = "exited", !.exit = <<code>>, !.listening = FALSE]

\* a faulty catch block of autoProcessPDF: it ends the process
AutoCatch_Exits(s) == Exit([s EXCEPT !.autoError = TRUE], 1)

\* the catch block of autoProcessPDF: the error is logged and not thrown;
\* autoProcessPDF returns
AutoCatch(s) ==
  [s EXCEPT !.pc = "listen", !.autoError = TRUE, !.autoReturned = TRUE,
            !.log = "Error"]

InitServer ==
  /\ config = DefaultConfig
  /\ input = <<>>
  /\ InitSegmenter
  /\ documents \in SUBSET SeedDocuments
  /\ stored = {}
  /\ requests = <<>>
  /\ summaryCall = <<>>
  /\ server = <<NewProcess>>

ServerStep(s) ==
  /\ server' = <<s>>
  /\ UNCHANGED <<segVars, input, classVars, documents, stored, requests, summaryCall>>

\* startServer: await connectDB(); when it rejects, the catch block of
\* startServer logs and calls process.exit(1)
ConnectDB ==
  /\ server[1].pc = "connectDB"
  /\ \/ ServerStep([server[1] EXCEPT !.pc = "autoProcessPDF", !.connected = TRUE])
     \/ ServerStep(Exit([server[1] EXCEPT !.log = "Failed to start server"], 1))

\* autoProcessPDF: await connectDB()
AutoConnectDB ==
  /\ server[1].pc = "autoProcessPDF"
  /\ \/ ServerStep([server[1] EXCEPT !.pc = "findOne"])
     \/ ServerStep(AutoCatch(server[1]))

\* autoProcessPDF: await Document.findOne({ slug: 'test-sample' }) and the
\* message it logs
AutoFindOne ==
  /\ server[1].pc = "findOne"
  /\ \/ \E existingDoc \in findOne({d \in documents : d.slug = TestSample}) :
          ServerStep([server[1] EXCEPT
                        !.pc = "listen", !.autoReturned = TRUE,
                        !.log = IF existingDoc # <<>>
                                  THEN "Data already exists in MongoDB"
                                  ELSE "No data found in MongoDB"])
     \/ ServerStep(AutoCatch(server[1]))

\* startServer: app.listen(PORT)
Listen ==
  /\ server[1].pc = "listen"
  /\ ServerStep([server[1] EXCEPT !.pc = "listening", !.listening = TRUE])

\* a client tries to connect to the port
ClientConnects ==
  /\ server[1].served + server[1].refused < MaxConnections
  /\ IF server[1].listening
       THEN ServerStep([server[1] EXCEPT !.served = @ + 1])
       ELSE ServerStep([server[1] EXCEPT !.refused = @ + 1])

StartServer == ConnectDB \/ AutoConnectDB \/ AutoFindOne \/ Listen

NextServer == ConnectDB \/ AutoConnectDB \/ AutoFindOne \/ Listen \/ ClientConnects

\* the process keeps running its startup: no await is left pending for ever
SpecServer == InitServer /\ [][NextServer]_vars /\ WF_vars(StartServer)

(***************************************************************************)
(* Properties of segment().                                                 *)
(***************************************************************************)
\* the Blocks of a Section, kept or still open
BlocksOf(sec) == {sec.blocks[j] : j \in DOMAIN sec.blocks}

\* the kept Sections together with the open one
KeptAndOpen == sections \o currentSection

\* C1: in the output of segment() the Blocks of every kept Section carry the
\* order values 0, 1, 2, ... without a gap, and the kept Sections, in output
\* order, carry the order values 0..N-1 without a gap.
OrdersAreDense ==
  pc = "done" =>
    \A i \in DOMAIN returned :
      /\ returned[i].order = i - 1
      /\ \A j \in DOMAIN returned[i].blocks : returned[i].blocks[j].order = j - 1

\* a Section with two Blocks or more is returned after one was discarded
OrdersAreDenseWitness ==
  /\ pc = "done"
  /\ Len(returned) >= 1
  /\ Len(finalized) > Len(returned)
  /\ finalized[1].nBlocks < config.minBlocksPerSection
  /\ \E i \in DOMAIN returned : Len(returned[i].blocks) >= 2

\* C2: a Section finalized with fewer than minBlocksPerSection Blocks is
\* absent from the kept Sections, every Block of a kept Section derives from
\* records of that Section's own span (so none comes from a discarded one),
\* and the kept Sections are numbered as if the discarded ones had never
\* been: the kept Sections are the finalized ones with enough Blocks, in
\* order, numbered 0, 1, 2, ...
UndersizedSectionsLeaveNoTrace ==
  LET Enough(e) == e.nBlocks >= config.minBlocksPerSection
      kept == SelectSeq(finalized, Enough)
  IN  pc # "error" =>
        /\ Len(sections) = Len(kept)
        /\ \A i \in DOMAIN sections :
             /\ sections[i].headingIdx = kept[i].headingIdx
             /\ Len(sections[i].blocks) = kept[i].nBlocks
             /\ sections[i].order = i - 1
             /\ \A b \in BlocksOf(sections[i]) :
                  /\ b.src[1] > kept[i].headingIdx
                  /\ b.src[2] <= kept[i].endIdx

\* a Section with a Block, but too few, was discarded and the next one kept
UndersizedSectionsLeaveNoTraceWitness ==
  /\ pc = "done"
  /\ \E k \in 1..(Len(finalized) - 1) :
       /\ finalized[k].nBlocks >= 1
       /\ finalized[k].nBlocks < config.minBlocksPerSection
       /\ finalized[k + 1].nBlocks >= config.minBlocksPerSection
  /\ Len(sections) >= 1

\* C3: no record that lies between a metadata-phrase line (in any case) and
\* the next Level 1 heading line, the phrase line included, is in a Block of
\* a kept or open Section.
MetadataSpanIsExcluded ==
  \A i \in DOMAIN KeptAndOpen :
    \A b \in BlocksOf(KeptAndOpen[i]) : ~b.span

\* records were read inside a metadata span, and a Section with Blocks was
\* kept after it
MetadataSpanIsExcludedWitness ==
  /\ pc = "done"
  /\ seen.spanRecord
  /\ \E i \in DOMAIN sections :
       /\ sections[i].blocks # <<>>
       /\ sections[i].headingIdx >= 3

\* the step reads one more record and segment() goes on
ReadsRecord == nRecords' = nRecords + 1 /\ pc' = "running"

\* the record the step reads
RecordRead == lastRecord'[1]

\* C4: a Level 1 heading line read on a page <= pageThreshold while no
\* Section has been opened opens no Section; read on a later page, or once a
\* Section has been opened, it opens one.  So the heading line of every
\* Section, the first kept one included, comes from a page > pageThreshold.
ThresholdGatesHeading ==
  ReadsRecord /\ IsLevel1Line(RecordRead) =>
    IF ~sectionOpened /\ RecordRead.pageNumber <= config.pageThreshold
      THEN currentSection' = <<>> /\ ~sectionOpened' /\ sections' = <<>>
      ELSE /\ currentSection' # <<>>
           /\ sectionOpened'
           /\ currentSection'[1].heading = RecordRead.text
           /\ currentSection'[1].headingIdx = nRecords'
           /\ currentSection'[1].headingPage = RecordRead.pageNumber

HeadingsArePastThreshold ==
  \A i \in DOMAIN KeptAndOpen : KeptAndOpen[i].headingPage > config.pageThreshold

PageThresholdGating == []HeadingsArePastThreshold /\ [][ThresholdGatesHeading]_vars

\* with pageThreshold = 3, a heading line on page 3 opened nothing and the
\* heading line on page 4 opened a Section
PageThresholdGatingWitness ==
  /\ config = DefaultConfig
  /\ seen.gated
  /\ currentSection # <<>>
  /\ currentSection[1].headingPage = DefaultPageThreshold + 1
  /\ lastRecord = <<TextLine(DefaultPageThreshold + 1, "1. Introduction")>>

\* C5: a Level 2 heading line opens no Section and finalizes none; when a
\* Section is open the line becomes the last Block, a text Block, of that
\* Section.  The Sections opened are as many as the eligible Level 1
\* heading lines read.
Level2IsContent ==
  ReadsRecord /\ IsLevel2Line(RecordRead) =>
    /\ finalized' = finalized
    /\ sections' = sections
    /\ sectionOpened' = sectionOpened
    /\ IF currentSection = <<>>
         THEN currentSection' = <<>>
         ELSE LET old == currentSection[1]
                  new == currentSection'[1]
                  last == new.blocks[Len(new.blocks)]
              IN  /\ currentSection' # <<>>
                  /\ new.headingIdx = old.headingIdx
                  /\ new.heading = old.heading
                  /\ Len(new.blocks) > Len(old.blocks)
                  /\ SubSeq(new.blocks, 1, Len(old.blocks)) = old.blocks
                  /\ last.type = "text"
                  /\ last.content = <<RecordRead.text>>
                  /\ last.src = <<nRecords', nRecords'>>

SectionsOpenedAreEligibleHeadings ==
  pc # "error" => Len(finalized) + Len(currentSection) = eligible

HeadingLevelHierarchy ==
  []SectionsOpenedAreEligibleHeadings /\ [][Level2IsContent]_vars

\* "1.1 Overview" was read after "1. Introduction" and a paragraph, and is
\* the last Block of the Section "1. Introduction"
HeadingLevelHierarchyWitness ==
  /\ pc = "running"
  /\ currentSection # <<>>
  /\ currentSection[1].heading = "1. Introduction"
  /\ Len(currentSection[1].blocks) = 2
  /\ currentSection[1].blocks[2].content = <<"1.1 Overview">>
  /\ eligible = 1

\* C7: segment() fails with MalformedInputError exactly when the page number
\* decreases between two consecutive records; it then returns no Section
\* list.  While the pages do not decrease it fails on no record, and at the
\* end of such an input it returns the list.
MalformedInputIsTheOnlyError ==
  /\ pc = "error" <=> seen.decrease
  /\ pc = "error" => returned = <<>> /\ sections = <<>> /\ classifier = "idle"
  /\ pc = "done" /\ classifier = "idle" => returned = sections
  /\ pc = "running" => ENABLED ReturnSections

\* the third record or a later one is on an earlier page than the one before
\* it, after a Section had been opened
MalformedInputIsTheOnlyErrorWitness ==
  /\ pc = "error"
  /\ nRecords >= 3
  /\ eligible >= 1
  /\ lastRecord[1].pageNumber < FirstPage(config) + MaxPages - 1

WithoutMetadata(sec) ==
  [sec EXCEPT !.blocks = [j \in DOMAIN sec.blocks |->
                            [sec.blocks[j] EXCEPT !.metadata = EmptyMap]]]

HeadingPhraseLines == {"1. TABLE OF CONTENTS"}

\* C10: a line that matches a Level 1 heading pattern and holds a metadata
\* phrase is handled as metadata: it opens no Section (the open one is
\* finalized) and starts a metadata span; the records read in the span add
\* nothing to any Section until a Level 1 heading ends it.
HeadingPhraseStartsSpan ==
  ReadsRecord /\ IsText(RecordRead) /\ RecordRead.text \in HeadingPhraseLines =>
    /\ currentSection' = <<>>
    /\ inMetadataSpan'
    /\ sectionOpened' = sectionOpened
    /\ Len(finalized') = Len(finalized) + Len(currentSection)

SpanRecordsAreDiscarded ==
  ReadsRecord /\ inMetadataSpan /\ inMetadataSpan' =>
    /\ sections' = sections
    /\ finalized' = finalized
    /\ currentSection' = <<>>
    /\ buffer' = <<>>

SpanHoldsNoSection == inMetadataSpan => currentSection = <<>> /\ buffer = <<>>

MetadataTakesPrecedence ==
  /\ []SpanHoldsNoSection
  /\ [][HeadingPhraseStartsSpan]_vars
  /\ [][SpanRecordsAreDiscarded]_vars

\* "1. TABLE OF CONTENTS" was read past the page threshold with a Section
\* open: the Section was finalized, none was opened
MetadataTakesPrecedenceWitness ==
  /\ pc = "running"
  /\ lastRecord # <<>>
  /\ IsText(lastRecord[1])
  /\ lastRecord[1].text \in HeadingPhraseLines
  /\ lastRecord[1].pageNumber > config.pageThreshold
  /\ inMetadataSpan
  /\ currentSection = <<>>
  /\ Len(finalized) = 1
  /\ finalized[1].endIdx = nRecords - 1

\* the step reads a record that is an eligible Level 1 heading line
ReadsEligibleHeading ==
  ReadsRecord /\ EligibleLine(RecordRead, sectionOpened, config)

\* C11: inMetadataSpan is false at the start, is set by every metadata-phrase
\* line, cleared by every Level 1 heading line on which heading detection
\* runs, and changed by no other record.  The heading line that clears it
\* opens a Section itself, and the record read next is taken into that
\* Section: a text line into its paragraph buffer, a Level 2 line, an image
\* or a table as its next Block.
SpanEndsAtHeading ==
  ReadsRecord =>
    /\ inMetadataSpan' =
         IF IsPhraseLine(RecordRead) THEN TRUE
         ELSE IF ReadsEligibleHeading THEN FALSE
         ELSE inMetadataSpan
    /\ ReadsEligibleHeading =>
         /\ currentSection' # <<>>
         /\ currentSection'[1].headingIdx = nRecords'
         /\ currentSection'[1].heading = RecordRead.text
         /\ currentSection'[1].blocks = <<>>
         /\ buffer' = <<>>

RecordAfterHeadingIsAppended ==
  /\ ReadsRecord
  /\ currentSection # <<>>
  /\ currentSection[1].headingIdx = nRecords
  /\ ~IsPhraseLine(RecordRead)
  /\ ~IsLevel1Line(RecordRead)
  => /\ currentSection' # <<>>
     /\ currentSection'[1].headingIdx = nRecords
     /\ IF IsText(RecordRead) /\ RecordRead.text = ""
          THEN currentSection'[1].blocks = <<>> /\ buffer' = <<>>
        ELSE IF IsText(RecordRead) /\ ~IsLevel2Line(RecordRead)
          THEN /\ currentSection'[1].blocks = <<>>
               /\ Len(buffer') = 1
               /\ buffer'[1].idx = nRecords'
               /\ buffer'[1].text = RecordRead.text
        ELSE /\ Len(currentSection'[1].blocks) = 1
             /\ currentSection'[1].blocks[1].src = <<nRecords', nRecords'>>
             /\ buffer' = <<>>

SpanOnlyAfterPhraseLine ==
  pc # "error" =>
    /\ nRecords = 0 => ~inMetadataSpan
    /\ inSpan => inMetadataSpan
    /\ inMetadataSpan /\ ~inSpan => ~sectionOpened

BlocksAtFinalize == Len(currentSection[1].blocks) + (IF buffer = <<>> THEN 0 ELSE 1)

\* C12: a metadata-phrase line read while a Section is open finalizes that
\* Section with the Blocks it has from the records before the line; the
\* Section is kept exactly when these are minBlocksPerSection or more.  No
\* Section is open after the line, and a kept Section never changes
\* afterwards, but for the metadata of its Blocks.
PhraseLineFinalizes ==
  ReadsRecord /\ IsPhraseLine(RecordRead) /\ currentSection # <<>> =>
    /\ currentSection' = <<>>
    /\ buffer' = <<>>
    /\ finalized' =
         Append(finalized,
                [headingIdx |-> currentSection[1].headingIdx,
                 nBlocks |-> BlocksAtFinalize, endIdx |-> nRecords])
    /\ IF BlocksAtFinalize >= config.minBlocksPerSection
         THEN /\ Len(sections') = Len(sections) + 1
              /\ sections'[Len(sections')].headingIdx = currentSection[1].headingIdx
              /\ Len(sections'[Len(sections')].blocks) = BlocksAtFinalize
              /\ SubSeq(sections', 1, Len(sections)) = sections
         ELSE sections' = sections

KeptSectionsAreFinal ==
  pc' # "error" =>
    /\ Len(sections') >= Len(sections)
    /\ \A i \in DOMAIN sections :
         WithoutMetadata(sections'[i]) = WithoutMetadata(sections[i])

MetadataLineFinalizesSection ==
  [][PhraseLineFinalizes]_vars /\ [][KeptSectionsAreFinal]_vars

\* a Section was kept by a metadata-phrase line, another was discarded by
\* one, and records were read after a phrase line
MetadataLineFinalizesSectionWitness ==
  /\ pc = "running"
  /\ seen.spanRecord
  /\ inMetadataSpan
  /\ currentSection = <<>>
  /\ Len(finalized) = 1
  /\ Len(sections) = 1
  /\ finalized[1].endIdx = nRecords - 2
  /\ sections[1].blocks[Len(sections[1].blocks)].src[2] = nRecords - 2

\* the characters the short lines below are made of
ShortLineAlphabet == {"1", ".", " ", "A", "a", "U"}

\* every line of fewer than 5 characters over these characters
ShortLineTexts == UNION {[1..n -> ShortLineAlphabet] : n \in 0..4}

\* the input lines of fewer than 5 characters
ShortLines == {"1.", "1. A"}

\* C13: no line of fewer than 5 characters is a heading, the bare number
\* "1." and the numbered "1. A" among them.  Such a line opens no Section
\* and finalizes none; with a Section open it is buffered as a line of the
\* current paragraph, as any text line is, and with none it is discarded.
NoShortLineIsHeading ==
  /\ \A t \in ShortLineTexts : ~is_heading(t)
  /\ \A text \in ShortLines : LineClass[text] = "text"

ShortLineIsText ==
  ReadsRecord /\ IsText(RecordRead) /\ RecordRead.text \in ShortLines =>
    /\ sectionOpened' = sectionOpened
    /\ finalized' = finalized
    /\ sections' = sections
    /\ IF currentSection = <<>>
         THEN currentSection' = <<>> /\ buffer' = <<>>
         ELSE /\ currentSection' # <<>>
              /\ currentSection'[1].headingIdx = currentSection[1].headingIdx
              /\ buffer' # <<>>
              /\ buffer'[Len(buffer')].idx = nRecords'
              /\ buffer'[Len(buffer')].text = RecordRead.text
              /\ \/ /\ buffer' = Append(buffer, buffer'[Len(buffer')])
                    /\ currentSection' = currentSection
                 \/ /\ Len(buffer') = 1
                    /\ buffer # <<>>
                    /\ buffer[Len(buffer)].pageNumber < RecordRead.pageNumber
                    /\ Len(currentSection'[1].blocks) = Len(currentSection[1].blocks) + 1

ShortLinesAreNoHeadings == []NoShortLineIsHeading /\ [][ShortLineIsText]_vars

\* "1." and "1. A" were read after "1. Introduction" and are one paragraph
\* of its Section, which is returned
ShortLinesAreNoHeadingsWitness ==
  /\ pc = "done"
  /\ Len(finalized) = 1
  /\ Len(returned) = 1
  /\ returned[1].heading = "1. Introduction"
  /\ \E j \in DOMAIN returned[1].blocks :
       returned[1].blocks[j].content = <<"1.", "1. A">>

\* the finalized Sections whose heading line was followed at once by the
\* heading line of the next Section
HeadingsFollowedByHeading ==
  { k \in DOMAIN finalized :
      /\ finalized[k].endIdx = finalized[k].headingIdx
      /\ LET next == IF k < Len(finalized)
                       THEN finalized[k + 1].headingIdx
                       ELSE IF currentSection # <<>>
                         THEN currentSection[1].headingIdx
                         ELSE 0
         IN  next = finalized[k].headingIdx + 1 }

\* the first of two consecutive heading lines has no Section in the output
FirstHeadingIsDiscarded ==
  \A k \in HeadingsFollowedByHeading :
    /\ finalized[k].nBlocks = 0
    /\ \A i \in DOMAIN sections : sections[i].headingIdx # finalized[k].headingIdx

\* C14 as stated: when a Level 1 heading line follows another with no record
\* between them, the Section of the first is finalized with zero Blocks and
\* is not in the output, for every config.
ConsecutiveHeadingsAnyConfig == FirstHeadingIsDiscarded

\* C14: when a Level 1 heading line follows another with no record between
\* them, the Section of the first is finalized with zero Blocks; it is not
\* in the output for every config with minBlocksPerSection >= 1, and it is
\* kept, with no Block, when minBlocksPerSection is 0.
ConsecutiveHeadings ==
  \A k \in HeadingsFollowedByHeading :
    /\ finalized[k].nBlocks = 0
    /\ IF config.minBlocksPerSection >= 1
         THEN \A i \in DOMAIN sections :
                sections[i].headingIdx # finalized[k].headingIdx
         ELSE \E i \in DOMAIN sections :
                /\ sections[i].headingIdx = finalized[k].headingIdx
                /\ sections[i].blocks = <<>>

\* two heading lines were read one after the other under a config that
\* discards, the Section of the second was kept and nothing else
ConsecutiveHeadingsWitness ==
  /\ pc = "done"
  /\ config.minBlocksPerSection >= 1
  /\ HeadingsFollowedByHeading # {}
  /\ Len(returned) = 1
  /\ Len(finalized) = 2
  /\ returned[1].headingIdx = finalized[1].headingIdx + 1

\* the records two Blocks derive from are not the same ones
DisjointSources(a, b) == a.src[2] < b.src[1] \/ b.src[2] < a.src[1]

\* C15: a record read while no Section is open, unless it is a heading line
\* that opens one, is dropped: it raises no error when its page is not
\* before the last one, and it changes neither the kept Sections nor the
\* finalized ones, nor opens a Section.  Every Block derives from records
\* read after the heading line of its own Section and before the heading
\* line of the next, and no two Blocks derive from the same record: a Block
\* belongs to one Section only.
RecordWithoutSectionIsDropped ==
  /\ nRecords' = nRecords + 1
  /\ currentSection = <<>>
  /\ RecordRead.pageNumber >= LastPage
  /\ ~EligibleLine(RecordRead, sectionOpened, config)
  => /\ pc' = "running"
     /\ currentSection' = <<>>
     /\ buffer' = <<>>
     /\ sections' = sections
     /\ finalized' = finalized
     /\ sectionOpened' = sectionOpened

BlocksBelongToOneSection ==
  \A i, k \in DOMAIN KeptAndOpen :
    \A j \in DOMAIN KeptAndOpen[i].blocks : \A l \in DOMAIN KeptAndOpen[k].blocks :
      LET b == KeptAndOpen[i].blocks[j]
      IN  /\ b.src[1] > KeptAndOpen[i].headingIdx
          /\ i < k => b.src[2] < KeptAndOpen[k].headingIdx
          /\ <<i, j>> # <<k, l>> => DisjointSources(b, KeptAndOpen[k].blocks[l])

FrontMatterIsDropped ==
  []BlocksBelongToOneSection /\ [][RecordWithoutSectionIsDropped]_vars

\* an image or a table was read with no Section open, before the first
\* Section and again after a kept one was closed by a metadata line
FrontMatterIsDroppedWitness ==
  /\ pc = "running"
  /\ currentSection = <<>>
  /\ lastRecord # <<>>
  /\ lastRecord[1].kind \in {"image", "table"}
  /\ Len(sections) = 1
  /\ sections[1].headingIdx >= 2
  /\ Len(finalized) = 1
  /\ finalized[1].endIdx = nRecords - 2

\* str.split(' ').length
WordCount(str) == Len(Split(str))

\* C18: the headline generateSummary returns has at most 12 space-separated
\* words, for every heading, section text and LLM answer, on the success
\* path and on the fallback path.
HeadlineHasAtMost12Words ==
  summaryCall # <<>> /\ summaryCall[1].result # <<>> =>
    WordCount(summaryCall[1].result[1].headline) <= 12

(***************************************************************************)
(* Properties of the Document Store.                                        *)
(***************************************************************************)
\* no two Documents of the store hold the same slug
DocumentSlugsUnique ==
  \A d1 \in documents, d2 \in documents : d1.slug = d2.slug => d1 = d2

\* a Document that a step saves has a slug no Document held before the step
SavedSlugIsNew ==
  [][\A d \in documents' \ documents : \A e \in documents : e.slug # d.slug]_vars

\* C17: Document slugs are unique under every interleaving of the steps of
\* the requests, two concurrent uploads of the same title included: the
\* store never holds two Documents with the same slug, and the slug a save
\* writes is not the slug of a Document that was there already.
DocumentSlugsStayUnique == []DocumentSlugsUnique /\ SavedSlugIsNew

\* two uploads of the same title both found the first slug free; the save of
\* one went through and the save of the other was refused
DocumentSlugsStayUniqueWitness ==
  \E a \in Uploads, b \in Uploads :
    /\ a # b
    /\ requests[a].title = requests[b].title
    /\ requests[a].slug = requests[b].slug
    /\ requests[a].slug = slugify(requests[a].title)
    /\ requests[a].response = <<[status |-> 200]>>
    /\ requests[b].response = <<[status |-> 500, message |-> "save"]>>
    /\ \E d \in documents : d.id = a /\ d.slug = requests[a].slug
    /\ \A d \in documents : d.id # b

\* no two Sections of a document share an order or a sectionSlug
NoDuplicateKeys ==
  \A s1 \in stored, s2 \in stored :
    /\ s1.documentSlug = s2.documentSlug
    /\ s1.order = s2.order \/ s1.sectionSlug = s2.sectionSlug
    => s1 = s2

\* the uploads and script runs so far ran one after another
RunsInSequence == \A r \in Uploads \cup Scripts : requests[r].alone

DeleteAnswersAlone(r) ==
  /\ requests[r].pc # "responded"
  /\ requests'[r].pc = "responded"
  /\ requests'[r].alone

\* C20: DELETE /api/documents/:slug answers 200 exactly when a Document held
\* the slug; the store is then the store from before the request without
\* that Document and without the Sections of that documentSlug, all others
\* unchanged.  For a slug no Document holds it answers 404 and the store is
\* the store from before.
DeleteRemovesDocumentAndSections ==
  [][\A r \in Deletes :
       DeleteAnswersAlone(r) =>
         LET slug == requests'[r].slug
             before == requests'[r].before[1]
             status == requests'[r].response[1].status
         IN  IF \E d \in before.documents : d.slug = slug
               THEN /\ status = 200
                    /\ documents' = {d \in before.documents : d.slug # slug}
                    /\ stored' = {s \in before.stored : s.documentSlug # slug}
               ELSE /\ status = 404
                    /\ documents' = before.documents
                    /\ stored' = before.stored]_vars

\* a DELETE that ran alone answered 200: before it the store held the
\* Document with its Sections and Sections of another document, and since
\* its answer nothing has changed
DeleteRemovesDocumentAndSectionsWitness ==
  \E r \in Deletes :
    /\ requests[r].pc = "responded"
    /\ requests[r].alone
    /\ requests[r].response = <<[status |-> 200]>>
    /\ LET slug == requests[r].slug
           before == requests[r].before[1]
       IN  /\ \E s \in before.stored : s.documentSlug = slug
           /\ \E s \in before.stored : s.documentSlug # slug
           /\ \E d \in before.documents : d.slug # slug
           /\ documents = {d \in before.documents : d.slug # slug}
           /\ stored = {s \in before.stored : s.documentSlug # slug}

\* only uploads and DELETE requests have run so far
OnlyUploadsAndDeletes == \A r \in Scripts : requests[r].pc = "idle"

\* C21: under every interleaving of upload and DELETE requests, the
\* documentSlug of every stored Section is the slug of a stored Document,
\* while requests are in flight and after all have finished.
NoOrphanSections ==
  OnlyUploadsAndDeletes =>
    \A s \in stored : \E d \in documents : d.slug = s.documentSlug

\* no upload and no DELETE is between its first and its last step
NoRequestInProgress == \A r \in Uploads \cup Deletes : ~InProgress(r)

SectionsOf(slug) == {s \in stored : s.documentSlug = slug}

\* C22: whenever no upload or DELETE is in progress, the sectionCount of
\* every stored Document is the number of stored Sections under its slug,
\* and an upload that answered 500 has left no Document behind.
SectionCountMatchesSections ==
  OnlyUploadsAndDeletes /\ NoRequestInProgress =>
    /\ \A d \in documents : d.sectionCount = Cardinality(SectionsOf(d.slug))
    /\ \A r \in Uploads :
         requests[r].response # <<>> /\ requests[r].response[1].status = 500
           => \A d \in documents : d.id # r

\* the upload r has answered
Answers(r, status) ==
  requests[r].response # <<>> /\ requests[r].response[1].status = status

\* C26: every upload has removed its temporary PDF when the handler is
\* through (a file is left only where fs.unlink itself threw, which ends in
\* a 500), and a removal that fails never turns an upload whose Sections
\* were stored into an error response.
TempFileIsRemoved ==
  \A r \in Uploads :
    requests[r].pc = "responded" =>
      /\ requests[r].file = "present" => Answers(r, 500)
      /\ ~ /\ Answers(r, 500)
           /\ requests[r].response[1].message = "unlink"
           /\ requests[r].sections # <<>>

(***************************************************************************)
(* Properties of the navigation.                                            *)
(***************************************************************************)
\* the Sections of the document the reader is in
SectionsRead == {s \in stored : s.documentSlug = requests.docSlug}

\* the link to the Section of the reader's document at an order, null when
\* the document has none
LinkTo(order) ==
  IF \E s \in SectionsRead : s.order = order
    THEN LET s == CHOOSE t \in SectionsRead : t.order = order
         IN  <<[slug |-> s.sectionSlug, heading |-> s.heading]>>
    ELSE <<>>

Answered == requests.response # <<>> /\ requests.response[1].status = 200

\* previous links to the Section at order - 1 and next to the one at
\* order + 1, each null when there is none
LinksAreByOrder ==
  Answered =>
    LET response == requests.response[1]
    IN  /\ response.navigation.previous = LinkTo(response.section.order - 1)
        /\ response.navigation.next = LinkTo(response.section.order + 1)

Forward(n) == [i \in 1..n |-> i - 1]

Backward(n) == [i \in 1..n |-> n - i]

AllHops(hop, n) == [i \in 1..n |-> hop]

\* from the Section of order 0, following next to the end visits the
\* Sections 0..N-1 in turn, each once
NextVisitsEverySection ==
  /\ Answered
  /\ requests.path[1] = 0
  /\ requests.hops = AllHops("next", Len(requests.hops))
  /\ requests.response[1].navigation.next = <<>>
  => requests.path = Forward(Cardinality(SectionsRead))

\* after that, following previous to the end goes back over the same
\* Sections, last to first
PreviousRetraces ==
  LET n == Cardinality(SectionsRead)
  IN  /\ Answered
      /\ requests.path[1] = 0
      /\ Len(requests.hops) >= n - 1
      /\ requests.hops = AllHops("next", n - 1)
                           \o AllHops("previous", Len(requests.hops) - (n - 1))
      /\ requests.response[1].navigation.previous = <<>>
      => requests.path = Forward(n) \o SubSeq(Backward(n), 2, n)

\* C19: GET /api/sections/:docSlug/:sectionSlug answers with previous the
\* Section of the document at order - 1 and next the one at order + 1, null
\* when there is none; in a document with the orders 0..N-1, following next
\* from order 0 visits every Section once and ends at next = null, and
\* previous goes back the same way.
NavigationFollowsOrder ==
  LinksAreByOrder /\ NextVisitsEverySection /\ PreviousRetraces

\* the reader went through a document of three Sections from the first to
\* the last and back to the first, next to a second document in the store
NavigationFollowsOrderWitness ==
  /\ Answered
  /\ Cardinality(SectionsRead) = 3
  /\ stored # SectionsRead
  /\ requests.path = <<0, 1, 2, 1, 0>>
  /\ requests.hops = <<"next", "next", "previous", "previous">>
  /\ requests.response[1].navigation.previous = <<>>
  /\ requests.response[1].navigation.next # <<>>

(***************************************************************************)
(* Properties of the summarizer.                                            *)
(***************************************************************************)
\* the one call of generateSummary and what it has resolved to
Call == summaryCall[1]

Returned == summaryCall # <<>> /\ Call.result # <<>>

\* C24: generateSummary never rejects.  When the LLM request or the parsing
\* of its content fails it resolves to the heading as headline and the
\* summary 'Summary generation failed. Please review the full content.';
\* otherwise its headline and its summary are non-empty whenever the
\* heading is non-empty.
SummaryAlwaysResolves ==
  Returned =>
    /\ Call.result[1].promise = "resolved"
    /\ Call.answer.outcome \in {"throws", "invalid JSON"} =>
         Call.result[1] =
           [promise |-> "resolved", headline |-> Call.heading,
            summary |-> "Summary generation failed. Please review the full content."]
    /\ Call.answer.outcome \in {"headline", "no headline"}
         /\ Call.heading # EmptyString =>
           /\ Call.result[1].headline # EmptyString
           /\ Call.result[1].summary # ""

\* the content of the answer was no JSON and the call has resolved to the
\* fallback with a heading of two words
SummaryAlwaysResolvesWitness ==
  /\ Returned
  /\ Call.answer.outcome = "invalid JSON"
  /\ Call.heading = WordsString(2)
  /\ Call.result[1].headline = WordsString(2)
  /\ Call.result[1].promise = "resolved"

\* element i of the results is section i with headline and summary added
\* and nothing else changed
IsSectionWithSummary(element, section) ==
  /\ DOMAIN element = DOMAIN section \cup {"headline", "summary"}
  /\ \A f \in DOMAIN section : element[f] = section[f]

\* C25: generateSummariesBatch summarizes the sections one at a time in
\* input order and returns a list of the same length in the same order, in
\* which element i is input section i with headline and summary added; a
\* failed summarization drops and reorders nothing.
BatchKeepsSections ==
  /\ Len(requests.results) <= Len(requests.sections)
  /\ Len(requests.calls) = Len(requests.results)
  /\ \A i \in DOMAIN requests.results :
       /\ IsSectionWithSummary(requests.results[i], requests.sections[i])
       /\ requests.calls[i].order = requests.sections[i].order
  /\ requests.pc = "returned" => Len(requests.results) = Len(requests.sections)

\* a batch of three different sections has returned; the summarization of
\* the second failed and that of the others did not
BatchKeepsSectionsWitness ==
  /\ requests.pc = "returned"
  /\ Len(requests.sections) = 3
  /\ requests.sections[1].heading # requests.sections[2].heading
  /\ requests.sections[2].heading # requests.sections[3].heading
  /\ requests.calls[1].outcome = "headline"
  /\ requests.calls[2].outcome = "throws"
  /\ requests.calls[3].outcome = "headline"
  /\ requests.results[2].headline = requests.sections[2].heading
  /\ requests.results[2].summary =
       "Summary generation failed. Please review the full content."

(***************************************************************************)
(* Properties of the server's start.                                        *)
(***************************************************************************)
Process == server[1]

\* the server listens, and serves a client, only after connectDB has
\* succeeded and autoProcessPDF has returned
ListensAfterStartup ==
  Process.listening \/ Process.served > 0 =>
    Process.connected /\ Process.autoReturned

\* when connectDB fails the process exits with code 1 without listening:
\* a process that never connected listens to nobody, and it exits with 1
ExitsWhenConnectFails ==
  /\ ~Process.connected => ~Process.listening /\ Process.served = 0
  /\ Process.pc = "exited" =>
       /\ Process.exit = <<1>>
       /\ ~Process.connected /\ ~Process.listening /\ Process.served = 0
  /\ Process.exit # <<>> => Process.pc = "exited"

\* an error inside autoProcessPDF does not end the process
AutoErrorIsSwallowed ==
  Process.autoError => Process.exit = <<>> /\ Process.pc \in {"listen", "listening"}

\* C23: the server listens only after connectDB has succeeded and
\* autoProcessPDF has returned; when connectDB fails the process exits with
\* code 1 and never listens; an error inside autoProcessPDF is swallowed and
\* the server listens all the same.
ServerStartsInOrder ==
  /\ [](ListensAfterStartup /\ ExitsWhenConnectFails /\ AutoErrorIsSwallowed)
  /\ [][Process.pc = "exited" => Process'.pc = "exited" /\ ~Process'.listening]_vars
  /\ (Process.autoError ~> Process.listening)
  /\ <>(Process.listening \/ Process.exit = <<1>>)

\* Document.findOne threw inside autoProcessPDF, the server listens and has
\* served a client it had refused before
ServerStartsInOrderWitness ==
  /\ Process.connected
  /\ Process.autoError
  /\ Process.listening
  /\ Process.refused = 1
  /\ Process.served = 1

(***************************************************************************)
(* The end-to-end scenario.                                                 *)
(***************************************************************************)
\* the Blocks of the given type in a Section
BlocksOfType(sec, type) == {j \in DOMAIN sec.blocks : sec.blocks[j].type = type}

\* the one Section returned has order 0, the given heading and 7 Blocks, 6
\* of text and 1 image
OneIntroductionSection(heading) ==
  /\ Len(returned) = 1
  /\ returned[1].order = 0
  /\ returned[1].heading = heading
  /\ Len(returned[1].blocks) = 7
  /\ Cardinality(BlocksOfType(returned[1], "text")) = 6
  /\ Cardinality(BlocksOfType(returned[1], "image")) = 1

====
